---- MODULE Spec2Model ----
(***************************************************************************)
(* A model of mm_io: the NBT tag codec of src/nbt.rs over the byte cursor  *)
(* and byte accumulator of src/bin.rs (FileParser, FileWriter), and the    *)
(* endianness-generic readers of src/binary.rs (FileReaderBE/LE).          *)
(*                                                                         *)
(* Values.  A byte is a number 0..255.  i8/i16/i32 are the integers of     *)
(* their range.  A 64-bit value (i64, f64) is the pair <<hi, lo>> of its   *)
(* two 32-bit halves, each read as an i32; f32 is its IEEE bit pattern     *)
(* read as an i32.  A String is its sequence of Unicode scalar values.     *)
(* A Tag is the pair <<tag_id, payload>>; the payload of a Compound is a   *)
(* function from names to Tags (HashMap<String, Tag>).                     *)
(*                                                                         *)
(* A fallible step yields [st, v, pos, why]: st = "ok" with the value v    *)
(* and the cursor pos after it, or st = "panic" (the thread unwinds; why   *)
(* names the panic), or, for the readers of binary.rs, st = "err" with     *)
(* why the BinError variant.                                               *)
(***************************************************************************)
EXTENDS Integers, Sequences, FiniteSets, TLC

VARIABLES bytes, pos, reader, fw, wrote, log, calls

vars == <<bytes, pos, reader, fw, wrote, log, calls>>

---------------------------------------------------------------------------
(* Bounds of the model. *)

\* longest buffer enumerated byte by byte
MaxRawLen == 5
\* operations recorded on one cursor
MaxOps == 3
\* longest element loop that makes no progress and is still unrolled
MaxCount == 300

\* the byte values the enumerated buffers are made of
RawBytes == {0, 1, 255}

---------------------------------------------------------------------------
(* Outcomes. *)

Ok(v, p) == [st |-> "ok", v |-> v, pos |-> p, why |-> ""]

Panic(why, v, p) == [st |-> "panic", v |-> v, pos |-> p, why |-> why]

Err(why, p) == [st |-> "err", v |-> 0, pos |-> p, why |-> why]

\* an element loop that would push more than MaxCount elements without
\* consuming a byte: it ends, with a vector outside the modelled values
Huge(n, p) == [st |-> "huge", v |-> n, pos |-> p, why |-> "element loop makes no progress"]

---------------------------------------------------------------------------
(* Fixed-width conversions: T::from_be_bytes / from_le_bytes / to_be_bytes. *)

Reverse(s) == [i \in 1..Len(s) |-> s[Len(s) + 1 - i]]

I8Of(b) == IF b >= 128 THEN b - 256 ELSE b

u16_from_be_bytes(s) == s[1] * 256 + s[2]

i16_from_be_bytes(s) == I8Of(s[1]) * 256 + s[2]

i32_from_be_bytes(s) == I8Of(s[1]) * 16777216 + s[2] * 65536 + s[3] * 256 + s[4]

i64_from_be_bytes(s) == <<i32_from_be_bytes(SubSeq(s, 1, 4)), i32_from_be_bytes(SubSeq(s, 5, 8))>>

u16_from_le_bytes(s) == u16_from_be_bytes(Reverse(s))

i16_from_le_bytes(s) == i16_from_be_bytes(Reverse(s))

i32_from_le_bytes(s) == i32_from_be_bytes(Reverse(s))

i64_from_le_bytes(s) == i64_from_be_bytes(Reverse(s))

\* the w low bytes of the two's complement of v, most significant first
RECURSIVE to_be_bytes(_, _)
to_be_bytes(v, w) ==
    IF w = 0 THEN <<>> ELSE Append(to_be_bytes(v \div 256, w - 1), v % 256)

to_le_bytes(v, w) == Reverse(to_be_bytes(v, w))

i64_to_be_bytes(v) == to_be_bytes(v[1], 4) \o to_be_bytes(v[2], 4)

i64_to_le_bytes(v) == Reverse(i64_to_be_bytes(v))

---------------------------------------------------------------------------
(* Text: String::len, MString::from_utf8(..).as_mutf8_bytes() and          *)
(* MString::from_mutf8(..).to_string() of the mutf8 crate.                 *)

Utf8Len(c) == IF c < 128 THEN 1 ELSE IF c < 2048 THEN 2 ELSE IF c < 65536 THEN 3 ELSE 4

RECURSIVE StringLen(_)
StringLen(s) == IF s = <<>> THEN 0 ELSE Utf8Len(Head(s)) + StringLen(Tail(s))

Enc3(c) == <<224 + (c \div 4096), 128 + ((c \div 64) % 64), 128 + (c % 64)>>

MUtf8Char(c) ==
    IF c = 0 THEN <<192, 128>>
    ELSE IF c < 128 THEN <<c>>
    ELSE IF c < 2048 THEN <<192 + (c \div 64), 128 + (c % 64)>>
    ELSE IF c < 65536 THEN Enc3(c)
    ELSE Enc3(55296 + ((c - 65536) \div 1024)) \o Enc3(56320 + ((c - 65536) % 1024))

RECURSIVE as_mutf8_bytes(_)
as_mutf8_bytes(s) ==
    IF s = <<>> THEN <<>> ELSE MUtf8Char(Head(s)) \o as_mutf8_bytes(Tail(s))

IsCont(s, i) == i <= Len(s) /\ s[i] >= 128 /\ s[i] < 192

Dec2(s) == (s[1] - 192) * 64 + (s[2] - 128)

Dec3(s) == (s[1] - 224) * 4096 + (s[2] - 128) * 64 + (s[3] - 128)

Is3(s) == Len(s) >= 3 /\ s[1] >= 224 /\ s[1] < 240 /\ IsCont(s, 2) /\ IsCont(s, 3)

IsHigh(c) == c >= 55296 /\ c < 56320

IsLow(c) == c >= 56320 /\ c < 57344

\* a byte that starts no modified UTF-8 sequence decodes to U+FFFD
RECURSIVE from_mutf8(_)
from_mutf8(s) ==
    IF s = <<>> THEN <<>>
    ELSE IF s[1] < 128 THEN <<s[1]>> \o from_mutf8(Tail(s))
    ELSE IF s[1] >= 192 /\ s[1] < 224 /\ IsCont(s, 2)
        THEN <<Dec2(s)>> \o from_mutf8(SubSeq(s, 3, Len(s)))
    ELSE IF Is3(s) /\ IsHigh(Dec3(s)) /\ Is3(SubSeq(s, 4, Len(s)))
            /\ IsLow(Dec3(SubSeq(s, 4, Len(s))))
        THEN <<65536 + (Dec3(s) - 55296) * 1024 + (Dec3(SubSeq(s, 4, Len(s))) - 56320)>>
                \o from_mutf8(SubSeq(s, 7, Len(s)))
    ELSE IF Is3(s) /\ ~IsHigh(Dec3(s)) /\ ~IsLow(Dec3(s))
        THEN <<Dec3(s)>> \o from_mutf8(SubSeq(s, 4, Len(s)))
    ELSE <<65533>> \o from_mutf8(Tail(s))

---------------------------------------------------------------------------
(* FileParser (src/bin.rs): a cursor whose reads index the buffer and      *)
(* panic when the slice runs past its end.                                 *)

\* self.pos += w; self.bytes[self.pos-w..self.pos]
FpSlice(b, p, w) ==
    IF p + w > Len(b)
    THEN Panic("range end index out of range for slice", 0, p + w)
    ELSE Ok(SubSeq(b, p + 1, p + w), p + w)

\* $type::from_be_bytes / $type::from_le_bytes of a slice of the type's size
\* (f32 and f64 are kept as the bit patterns of i32 and i64)
FromBytes(k, s) ==
    CASE k = "u8" -> s[1]
      [] k = "i8" -> I8Of(s[1])
      [] k = "be_u16" -> u16_from_be_bytes(s)
      [] k = "be_i16" -> i16_from_be_bytes(s)
      [] k \in {"be_i32", "be_f32"} -> i32_from_be_bytes(s)
      [] k \in {"be_i64", "be_f64"} -> i64_from_be_bytes(s)
      [] k = "le_u16" -> u16_from_le_bytes(s)
      [] k = "le_i16" -> i16_from_le_bytes(s)
      [] k \in {"le_i32", "le_f32"} -> i32_from_le_bytes(s)
      [] k \in {"le_i64", "le_f64"} -> i64_from_le_bytes(s)

\* T::from_*_bytes(slice.try_into().unwrap())
Conv(r, k) == IF r.st = "ok" THEN Ok(FromBytes(k, r.v), r.pos) ELSE r

read_u8(b, p) == Conv(FpSlice(b, p, 1), "u8")

read_i8(b, p) == Conv(FpSlice(b, p, 1), "i8")

read_be_u16(b, p) == Conv(FpSlice(b, p, 2), "be_u16")

read_be_i16(b, p) == Conv(FpSlice(b, p, 2), "be_i16")

read_be_i32(b, p) == Conv(FpSlice(b, p, 4), "be_i32")

read_be_i64(b, p) == Conv(FpSlice(b, p, 8), "be_i64")

read_be_f32(b, p) == Conv(FpSlice(b, p, 4), "be_f32")

read_be_f64(b, p) == Conv(FpSlice(b, p, 8), "be_f64")

read_le_u16(b, p) == Conv(FpSlice(b, p, 2), "le_u16")

\* read_le_i16 with the conversion of read_be_i16
read_le_i16_as_be(b, p) == Conv(FpSlice(b, p, 2), "be_i16")

read_le_i16(b, p) == Conv(FpSlice(b, p, 2), "le_i16")

read_le_i32(b, p) == Conv(FpSlice(b, p, 4), "le_i32")

read_le_i64(b, p) == Conv(FpSlice(b, p, 8), "le_i64")

read_le_f32(b, p) == Conv(FpSlice(b, p, 4), "le_f32")

read_le_f64(b, p) == Conv(FpSlice(b, p, 8), "le_f64")

\* len = u16 of bytes[pos..pos+2]; pos += len + 2; bytes[pos-len..pos]
VarString(b, p, len) ==
    IF p + 2 + len > Len(b)
    THEN Panic("range end index out of range for slice", 0, p + 2 + len)
    ELSE Ok(from_mutf8(SubSeq(b, p + 3, p + 2 + len)), p + 2 + len)

read_be_var_string(b, p) ==
    IF p + 2 > Len(b)
    THEN Panic("range end index out of range for slice", 0, p)
    ELSE VarString(b, p, u16_from_be_bytes(SubSeq(b, p + 1, p + 2)))

read_le_var_string(b, p) ==
    IF p + 2 > Len(b)
    THEN Panic("range end index out of range for slice", 0, p)
    ELSE VarString(b, p, u16_from_le_bytes(SubSeq(b, p + 1, p + 2)))

\* an end test that is true only past the end
at_end_past(b, p) == p > Len(b)

at_end(b, p) == p = Len(b)

---------------------------------------------------------------------------
(* Tag (src/nbt.rs). *)

Tag(id, v) == <<id, v>>

TagEnd == Tag(0, 0)

tag_id(t) == t[1]

Payload(t) == t[2]

\* an insert that keeps the value already stored under the key
MapInsertKeepFirst(m, k, v) ==
    [x \in (DOMAIN m) \cup {k} |-> IF x \in DOMAIN m THEN m[x] ELSE v]

\* HashMap::insert: the later value replaces an earlier one under the key
MapInsert(m, k, v) == [x \in (DOMAIN m) \cup {k} |-> IF x = k THEN v ELSE m[x]]

EmptyMap == [x \in {} |-> TagEnd]

\* the byte order a method's name carries: read_be_* or read_le_*
rd_i16(e, b, p) == IF e = "be" THEN read_be_i16(b, p) ELSE read_le_i16(b, p)

rd_i32(e, b, p) == IF e = "be" THEN read_be_i32(b, p) ELSE read_le_i32(b, p)

rd_i64(e, b, p) == IF e = "be" THEN read_be_i64(b, p) ELSE read_le_i64(b, p)

rd_f32(e, b, p) == IF e = "be" THEN read_be_f32(b, p) ELSE read_le_f32(b, p)

rd_f64(e, b, p) == IF e = "be" THEN read_be_f64(b, p) ELSE read_le_f64(b, p)

rd_var_string(e, b, p) ==
    IF e = "be" THEN read_be_var_string(b, p) ELSE read_le_var_string(b, p)

\* the element read of an array: read_i8, read_*_i32 or read_*_i64
rd_elem(e, id, b, p) ==
    IF id = 7 THEN read_i8(b, p)
    ELSE IF id = 11 THEN rd_i32(e, b, p)
    ELSE rd_i64(e, b, p)

\* the iterations of `for _ in 0..len` over a 64-bit len: a count beyond
\* the i32 range is cut to i32::MAX, which no buffer here can serve
Count64(len) ==
    IF len[1] < 0 THEN 0
    ELSE IF len[1] > 0 \/ len[2] < 0 THEN 2147483647
    ELSE len[2]

\* for _ in 0..n { array.push(fp.read_..()) }
RECURSIVE ReadArray(_, _, _, _, _, _)
ReadArray(e, id, n, b, p, acc) ==
    IF n <= 0 THEN Ok(Tag(id, acc), p)
    ELSE LET r == rd_elem(e, id, b, p)
         IN  IF r.st # "ok" THEN r
             ELSE ReadArray(e, id, n - 1, b, r.pos, Append(acc, r.v))

Wrap(id, r) == IF r.st = "ok" THEN Ok(Tag(id, r.v), r.pos) ELSE r

RECURSIVE TagRead(_, _, _, _)
RECURSIVE ReadList(_, _, _, _, _, _)
RECURSIVE ReadCompound(_, _, _, _)

\* Tag::read_be (e = "be") and Tag::read_le (e = "le"), which differ in
\* the byte order of the FileParser methods they call and in nothing else
TagRead(e, id, b, p) ==
    CASE id = 1 -> Wrap(1, read_i8(b, p))
      [] id = 2 -> Wrap(2, rd_i16(e, b, p))
      [] id = 3 -> Wrap(3, rd_i32(e, b, p))
      [] id = 4 -> Wrap(4, rd_i64(e, b, p))
      [] id = 5 -> Wrap(5, rd_f32(e, b, p))
      [] id = 6 -> Wrap(6, rd_f64(e, b, p))
      [] id = 7 ->
            LET len == rd_i32(e, b, p)
            IN  IF len.st # "ok" THEN len
                ELSE ReadArray(e, 7, len.v, b, len.pos, <<>>)
      [] id = 8 -> Wrap(8, rd_var_string(e, b, p))
      [] id = 9 ->
            LET type_id == read_u8(b, p)
                len == rd_i32(e, b, type_id.pos)
            IN  IF type_id.st # "ok" THEN type_id
                ELSE IF len.st # "ok" THEN len
                ELSE ReadList(e, type_id.v, len.v, b, len.pos, <<>>)
      [] id = 10 -> ReadCompound(e, b, p, EmptyMap)
      [] id = 11 ->
            LET len == rd_i32(e, b, p)
            IN  IF len.st # "ok" THEN len
                ELSE ReadArray(e, 11, len.v, b, len.pos, <<>>)
      [] id = 12 ->
            LET len == rd_i64(e, b, p)
            IN  IF len.st # "ok" THEN len
                ELSE ReadArray(e, 12, Count64(len.v), b, len.pos, <<>>)
      [] OTHER -> Panic("Invalid Tag ID", id, p)

\* for _ in 0..len { array.push(Tag::read(type_id, fp)) }
ReadList(e, type_id, n, b, p, acc) ==
    IF n <= 0 THEN Ok(Tag(9, acc), p)
    ELSE LET r == TagRead(e, type_id, b, p)
         IN  IF r.st # "ok" THEN r
             ELSE IF r.pos = p /\ n > MaxCount THEN Huge(n, p)
             ELSE ReadList(e, type_id, n - 1, b, r.pos, Append(acc, r.v))

\* while !fp.at_end() { id; break on 0; buf.insert(name, Tag::read(id, fp)) }
ReadCompound(e, b, p, buf) ==
    IF at_end(b, p) THEN Ok(Tag(10, buf), p)
    ELSE LET id == read_u8(b, p)
         IN  IF id.st # "ok" THEN id
             ELSE IF id.v = 0 THEN Ok(Tag(10, buf), id.pos)
             ELSE LET name == rd_var_string(e, b, id.pos)
                  IN  IF name.st # "ok" THEN name
                      ELSE LET val == TagRead(e, id.v, b, name.pos)
                           IN  IF val.st # "ok" THEN val
                               ELSE ReadCompound(e, b, val.pos, MapInsert(buf, name.v, val.v))

read_be(id, b, p) == TagRead("be", id, b, p)

read_le(id, b, p) == TagRead("le", id, b, p)

\* FileParser::new(bytes, 0), then the read of the implicit root Compound
from_be_bytes(b) == read_be(10, b, 0)

from_le_bytes(b) == read_le(10, b, 0)

---------------------------------------------------------------------------
(* FileWriter (src/bin.rs): each write_* yields the bytes it appends.  The *)
(* write_le_* methods call T::to_be_bytes, as the write_be_* methods do.   *)

write_u8(v) == to_be_bytes(v, 1)

write_i8(v) == to_be_bytes(v, 1)

write_be_u16(v) == to_be_bytes(v, 2)

write_be_i16(v) == to_be_bytes(v, 2)

write_be_i32(v) == to_be_bytes(v, 4)

write_be_i64(v) == i64_to_be_bytes(v)

write_be_f32(v) == to_be_bytes(v, 4)

write_be_f64(v) == i64_to_be_bytes(v)

\* v.len() as u16, then the modified UTF-8 bytes
write_be_var_string(s) == to_be_bytes(StringLen(s) % 65536, 2) \o as_mutf8_bytes(s)

write_le_u16(v) == to_be_bytes(v, 2)

write_le_i16(v) == to_be_bytes(v, 2)

write_le_i32(v) == to_be_bytes(v, 4)

write_le_i64(v) == i64_to_be_bytes(v)

write_le_f32(v) == to_be_bytes(v, 4)

write_le_f64(v) == i64_to_be_bytes(v)

write_le_var_string(s) == to_be_bytes(StringLen(s) % 65536, 2) \o as_mutf8_bytes(s)

\* the byte order a method's name carries: write_be_* or write_le_*
wr_i16(e, v) == IF e = "be" THEN write_be_i16(v) ELSE write_le_i16(v)

wr_i32(e, v) == IF e = "be" THEN write_be_i32(v) ELSE write_le_i32(v)

wr_i64(e, v) == IF e = "be" THEN write_be_i64(v) ELSE write_le_i64(v)

wr_f32(e, v) == IF e = "be" THEN write_be_f32(v) ELSE write_le_f32(v)

wr_f64(e, v) == IF e = "be" THEN write_be_f64(v) ELSE write_le_f64(v)

wr_var_string(e, s) ==
    IF e = "be" THEN write_be_var_string(s) ELSE write_le_var_string(s)

wr_elem(e, id, v) ==
    IF id = 7 THEN write_i8(v)
    ELSE IF id = 11 THEN wr_i32(e, v)
    ELSE wr_i64(e, v)

---------------------------------------------------------------------------
(* Tag::write_be / write_le (src/nbt.rs).  A Compound is written in the    *)
(* iteration order of its HashMap, which is any order of its keys: a write *)
(* yields the set of byte sequences it can produce.                        *)

RECURSIVE Flat(_)
Flat(ss) == IF ss = <<>> THEN <<>> ELSE Head(ss) \o Flat(Tail(ss))

\* the concatenations of one member of each set, in order
RECURSIVE Cat(_)
Cat(sets) ==
    IF sets = <<>> THEN {<<>>}
    ELSE {a \o r : a \in Head(sets), r \in Cat(Tail(sets))}

\* the orders in which map.iter() can visit the keys K
Orders(K) ==
    {o \in [1..Cardinality(K) -> K] : \A i, j \in DOMAIN o : i # j => o[i] # o[j]}

\* the id an empty List is written with, in place of its elements' own
list_type_id_own(v) == IF Len(v) = 0 THEN 9 ELSE tag_id(v[1])

\* if v.len() == 0 { 0x00 } else { v[0].tag_id() }
list_type_id(v) == IF Len(v) = 0 THEN 0 ELSE tag_id(v[1])

\* write_*_i32(v.len() as i32), then each element
WriteArray(e, id, v) ==
    wr_i32(e, Len(v)) \o Flat([i \in 1..Len(v) |-> wr_elem(e, id, v[i])])

\* the elements of a List are written by write_be under write_be and under
\* write_le alike; the values of a Compound by the method itself
RECURSIVE TagWrite(_, _)
TagWrite(e, t) ==
    CASE tag_id(t) = 0 -> {<<>>}
      [] tag_id(t) = 1 -> {write_i8(Payload(t))}
      [] tag_id(t) = 2 -> {wr_i16(e, Payload(t))}
      [] tag_id(t) = 3 -> {wr_i32(e, Payload(t))}
      [] tag_id(t) = 4 -> {wr_i64(e, Payload(t))}
      [] tag_id(t) = 5 -> {wr_f32(e, Payload(t))}
      [] tag_id(t) = 6 -> {wr_f64(e, Payload(t))}
      [] tag_id(t) = 7 -> {WriteArray(e, 7, Payload(t))}
      [] tag_id(t) = 8 -> {wr_var_string(e, Payload(t))}
      [] tag_id(t) = 9 ->
            {write_u8(list_type_id(Payload(t))) \o wr_i32(e, Len(Payload(t))) \o body :
                body \in Cat([i \in 1..Len(Payload(t)) |-> TagWrite("be", Payload(t)[i])])}
      [] tag_id(t) = 10 ->
            UNION {
                {body \o write_u8(0) :
                    body \in Cat([i \in DOMAIN o |->
                        {write_u8(tag_id(Payload(t)[o[i]])) \o wr_var_string(e, o[i]) \o x :
                            x \in TagWrite(e, Payload(t)[o[i]])}])} :
                o \in Orders(DOMAIN Payload(t))}
      [] tag_id(t) = 11 -> {WriteArray(e, 11, Payload(t))}
      [] tag_id(t) = 12 -> {WriteArray(e, 12, Payload(t))}

write_be(t) == TagWrite("be", t)

write_le(t) == TagWrite("le", t)

\* FileWriter::new(); self.write_be(&mut fw); fw.bytes()
tag_to_be_bytes(t) == write_be(t)

\* to_le_bytes calls self.write_be as well
tag_to_le_bytes(t) == write_be(t)

\* Tag::wrapped: the Compound holding self under the key k
wrapped(t, k) == Tag(10, [n \in {k} |-> t])

---------------------------------------------------------------------------
(* The buffers the decoder is run on. *)

SeqsUpTo(S, n) == UNION {[1..k -> S] : k \in 0..n}

RawBuffers == SeqsUpTo(RawBytes, MaxRawLen)

Endians == {"be", "le"}

\* the wire bytes of an unsigned 16-bit / signed 32-bit field in byte order e
Wire16(e, n) == IF e = "be" THEN <<n \div 256, n % 256>> ELSE <<n % 256, n \div 256>>

Wire32(e, n) == IF e = "be" THEN <<0, 0, n \div 256, n % 256>> ELSE <<n % 256, n \div 256, 0, 0>>

\* one Compound entry on the wire: id, name, payload
EntryBytes(e, id, name, payload) ==
    <<id>> \o Wire16(e, Len(name)) \o name \o payload

\* names of one ASCII letter: "a", "b"
EntryNames == {<<97>>, <<98>>}

Entries == {<<1, n, <<v>>>> : n \in EntryNames, v \in {1, 255}}
             \cup {<<2, n, <<0, 1>>>> : n \in EntryNames}

\* what follows the two entries: nothing, End, End and a trailing byte,
\* or a third entry (a Byte named "") and End
ThirdEntry == <<1, 0, 0, 255, 0>>

EntryTails == {<<>>, <<0>>, <<0, 1>>, ThirdEntry}

\* Compound bodies of two entries, with equal and with different names
TwoEntryBuffers ==
    {EntryBytes(e, x[1], x[2], x[3]) \o EntryBytes(e, y[1], y[2], y[3]) \o t :
        e \in Endians, x \in Entries, y \in Entries, t \in EntryTails}

\* payloads that meet a tag id outside 0x01..0x0C
BadIdPayloads == {<<255, 0, 0>>} \cup {<<255>> \o Wire32(e, 1) : e \in Endians}

\* one more level around a payload: a List element, a Compound entry of
\* List type, a Compound entry of Compound type (each named "")
Nested(S) ==
    {<<9>> \o Wire32(e, 1) \o b : e \in Endians, b \in S}
        \cup {<<9, 0, 0>> \o b : b \in S}
        \cup {<<10, 0, 0>> \o b : b \in S}

NestedBuffers == Nested(BadIdPayloads) \cup Nested(Nested(BadIdPayloads))

\* an 8-byte count of -1 (the count field of a LongArray), bare and
\* followed by one byte
LongCountBuffers == {[i \in 1..8 |-> 255], [i \in 1..9 |-> IF i = 9 THEN 1 ELSE 255]}

Buffers == RawBuffers \cup TwoEntryBuffers \cup NestedBuffers \cup LongCountBuffers

\* the type-ids handed to Tag::read_be / read_le: End, the twelve tag
\* types, and two ids outside them
ReadIds == (0..13) \cup {255}

---------------------------------------------------------------------------
(* The decoder, one FileParser over one buffer (Spec). *)

\* log holds the calls made on the current cursor, oldest first; a cursor
\* serves one run of calls: one method, one byte order, one tag id
Last == log[Len(log)]

\* no panic has unwound the thread
Alive == IF log = <<>> THEN TRUE ELSE Last.res.st # "panic"

SameRun(op, e, id) ==
    IF log = <<>> THEN TRUE ELSE Last.op = op /\ Last.e = e /\ Last.id = id

CanStep(op, e, id) == Alive /\ SameRun(op, e, id) /\ Len(log) < MaxOps

Call(op, e, id, start, res) ==
    [op |-> op, e |-> e, id |-> id, start |-> start, res |-> res]

Record(c) == Append(log, c)

\* wrote is the call that filled the FileWriter: its method, byte order
\* and argument
Wrote(op, e, arg) == [op |-> op, e |-> e, arg |-> arg]

NoWrite == Wrote("none", "be", TagEnd)

Init ==
    /\ bytes \in Buffers
    /\ pos = 0
    /\ reader = "FileParser"
    /\ fw = <<>>
    /\ wrote = NoWrite
    /\ log = <<>>
    /\ calls = <<>>

\* Tag::read_be(tag_id, &mut fp)
ReadBe(id) ==
    /\ CanStep("read", "be", id)
    /\ reader = "FileParser"
    /\ LET r == read_be(id, bytes, pos)
       IN  /\ pos' = r.pos
           /\ log' = Record(Call("read", "be", id, pos, r))
    /\ UNCHANGED <<bytes, reader, fw, wrote, calls>>

\* Tag::read_le(tag_id, &mut fp)
ReadLe(id) ==
    /\ CanStep("read", "le", id)
    /\ reader = "FileParser"
    /\ LET r == read_le(id, bytes, pos)
       IN  /\ pos' = r.pos
           /\ log' = Record(Call("read", "le", id, pos, r))
    /\ UNCHANGED <<bytes, reader, fw, wrote, calls>>

\* Tag::from_be_bytes(&bytes): a FileParser of its own, at offset 0
FromBeBytes ==
    /\ CanStep("from_bytes", "be", 10)
    /\ reader = "FileParser"
    /\ log' = Record(Call("from_bytes", "be", 10, 0, from_be_bytes(bytes)))
    /\ UNCHANGED <<bytes, pos, reader, fw, wrote, calls>>

\* Tag::from_le_bytes(&bytes)
FromLeBytes ==
    /\ CanStep("from_bytes", "le", 10)
    /\ reader = "FileParser"
    /\ log' = Record(Call("from_bytes", "le", 10, 0, from_le_bytes(bytes)))
    /\ UNCHANGED <<bytes, pos, reader, fw, wrote, calls>>

\* FileParser::new(&bytes, 0): a fresh cursor over the same buffer
New ==
    /\ Alive
    /\ log # <<>>
    /\ reader = "FileParser"
    /\ pos' = 0
    /\ log' = <<>>
    /\ UNCHANGED <<bytes, reader, fw, wrote, calls>>

\* fp.read_be_var_string()
ReadBeVarString ==
    /\ CanStep("read_var_string", "be", 8)
    /\ reader = "FileParser"
    /\ LET r == read_be_var_string(bytes, pos)
       IN  /\ pos' = r.pos
           /\ log' = Record(Call("read_var_string", "be", 8, pos, r))
    /\ UNCHANGED <<bytes, reader, fw, wrote, calls>>

\* fp.read_le_var_string()
ReadLeVarString ==
    /\ CanStep("read_var_string", "le", 8)
    /\ reader = "FileParser"
    /\ LET r == read_le_var_string(bytes, pos)
       IN  /\ pos' = r.pos
           /\ log' = Record(Call("read_var_string", "le", 8, pos, r))
    /\ UNCHANGED <<bytes, reader, fw, wrote, calls>>

Next ==
    \/ New
    \/ \E id \in ReadIds : ReadBe(id)
    \/ \E id \in ReadIds : ReadLe(id)
    \/ FromBeBytes
    \/ FromLeBytes
    \/ ReadBeVarString
    \/ ReadLeVarString

Spec == Init /\ [][Next]_vars

---------------------------------------------------------------------------
(* The values the encoder is run on. *)

\* longest List enumerated element by element
MaxListLen == 2

\* "", "a", the null code point, U+00E9, U+20AC, U+1F600, "ab"
Texts == {<<>>, <<97>>, <<0>>, <<233>>, <<8364>>, <<128512>>, <<97, 98>>}

\* Float and Double carry 1.0 as bit patterns
Leaves ==
    {Tag(1, 1), Tag(1, -1), Tag(2, 1), Tag(2, -2), Tag(3, 1), Tag(4, <<0, 1>>),
     Tag(5, 1065353216), Tag(6, <<1072693248, 0>>),
     Tag(7, <<>>), Tag(7, <<1, -1>>),
     Tag(11, <<>>), Tag(11, <<1>>),
     Tag(12, <<>>), Tag(12, <<<<0, 1>>>>), Tag(12, <<<<0, 1>>, <<0, 2>>>>)}
        \cup {Tag(8, s) : s \in Texts}

ListElems == {Tag(1, 1), Tag(2, 1), Tag(3, 1), Tag(8, <<97>>)}

\* Lists of up to MaxListLen elements, of one type and of mixed types
Lists == {Tag(9, v) : v \in SeqsUpTo(ListElems, MaxListLen)}

NestedLists ==
    {Tag(9, <<Tag(9, <<>>)>>), Tag(9, <<Tag(9, <<Tag(2, 1)>>)>>),
     Tag(9, <<Tag(10, EmptyMap)>>), Tag(9, <<wrapped(Tag(2, 1), <<97>>)>>)}

Values == Leaves \cup Lists \cup NestedLists

PairValues == {Tag(1, 1), Tag(2, 1), Tag(8, <<97>>)}

\* Compounds of no, one and two entries
Docs1 ==
    {wrapped(v, <<97>>) : v \in Values} \cup {wrapped(Tag(2, 1), k) : k \in Texts}

Docs2 ==
    {Tag(10, [n \in {<<97>>, <<98>>} |-> IF n = <<97>> THEN x ELSE y]) :
        x \in PairValues, y \in PairValues}

Docs == {Tag(10, EmptyMap)} \cup Docs1 \cup Docs2
            \cup {wrapped(d, <<97>>) : d \in Docs2}
            \cup {wrapped(wrapped(v, <<97>>), <<98>>) : v \in Leaves}

Tags == {TagEnd} \cup Values \cup Docs

---------------------------------------------------------------------------
(* The encoder, and the decoder on what it wrote (SpecCodec). *)

InitCodec ==
    /\ bytes = <<>>
    /\ pos = 0
    /\ reader = "none"
    /\ fw = <<>>
    /\ wrote = NoWrite
    /\ log = <<>>
    /\ calls = <<>>

\* one vector is written per behaviour
CanWrite == wrote = NoWrite

\* t.to_be_bytes()
ToBeBytes(t) ==
    /\ CanWrite
    /\ fw' \in tag_to_be_bytes(t)
    /\ wrote' = Wrote("to_bytes", "be", t)
    /\ UNCHANGED <<bytes, pos, reader, log, calls>>

\* t.to_le_bytes()
ToLeBytes(t) ==
    /\ CanWrite
    /\ fw' \in tag_to_le_bytes(t)
    /\ wrote' = Wrote("to_bytes", "le", t)
    /\ UNCHANGED <<bytes, pos, reader, log, calls>>

\* FileWriter::new(), then t.write_be(&mut fw)
WriteBe(t) ==
    /\ CanWrite
    /\ fw' \in write_be(t)
    /\ wrote' = Wrote("write", "be", t)
    /\ UNCHANGED <<bytes, pos, reader, log, calls>>

\* FileWriter::new(), then t.write_le(&mut fw)
WriteLe(t) ==
    /\ CanWrite
    /\ fw' \in write_le(t)
    /\ wrote' = Wrote("write", "le", t)
    /\ UNCHANGED <<bytes, pos, reader, log, calls>>

\* FileWriter::new(), then fw.write_be_var_string(&s)
WriteBeVarString(s) ==
    /\ CanWrite
    /\ fw' = write_be_var_string(s)
    /\ wrote' = Wrote("write_var_string", "be", s)
    /\ UNCHANGED <<bytes, pos, reader, log, calls>>

\* FileWriter::new(), then fw.write_le_var_string(&s)
WriteLeVarString(s) ==
    /\ CanWrite
    /\ fw' = write_le_var_string(s)
    /\ wrote' = Wrote("write_var_string", "le", s)
    /\ UNCHANGED <<bytes, pos, reader, log, calls>>

\* let bytes = fw.bytes(); FileParser::new(&bytes, 0)
Load ==
    /\ wrote # NoWrite
    /\ reader = "none"
    /\ bytes' = fw
    /\ pos' = 0
    /\ reader' = "FileParser"
    /\ log' = <<>>
    /\ UNCHANGED <<fw, wrote, calls>>

NextCodec ==
    \/ \E t \in Tags : ToBeBytes(t)
    \/ \E t \in Tags : ToLeBytes(t)
    \/ \E t \in Tags : WriteBe(t)
    \/ \E t \in Tags : WriteLe(t)
    \/ \E s \in Texts : WriteBeVarString(s)
    \/ \E s \in Texts : WriteLeVarString(s)
    \/ Load
    \/ New
    \/ \E id \in ReadIds : ReadBe(id)
    \/ \E id \in ReadIds : ReadLe(id)
    \/ FromBeBytes
    \/ FromLeBytes
    \/ ReadBeVarString
    \/ ReadLeVarString

SpecCodec == InitCodec /\ [][NextCodec]_vars

---------------------------------------------------------------------------
(* What a field holds, read off the buffer directly. *)

Signed16(n) == IF n >= 32768 THEN n - 65536 ELSE n

\* the value of the 1-byte (Byte) or 2-byte (Short) field s in byte order e
FieldValue(e, id, s) ==
    IF id = 1 THEN I8Of(s[1])
    ELSE IF e = "be" THEN Signed16(s[1] * 256 + s[2])
    ELSE Signed16(s[2] * 256 + s[1])

\* the width of a fixed-width tag type
Width(id) == CASE id = 1 -> 1 [] id = 2 -> 2 [] id = 3 -> 4 [] id = 4 -> 8
               [] id = 5 -> 4 [] id = 6 -> 8

\* C2: consecutive reads of one fixed-width tag type (Byte, Short) from a
\* cursor that starts at offset 0 return, in order, the consecutive
\* non-overlapping fields of the buffer, each read advancing the cursor by
\* the width; big-endian takes a field most significant byte first,
\* little-endian least significant byte first, and for Byte both agree.
C2_SequentialReads ==
    \A i \in 1..Len(log) :
        (log[i].op = "read" /\ log[i].id \in {1, 2}) =>
            LET w == Width(log[i].id)
                c == log[i]
            IN  /\ c.start = (i - 1) * w
                /\ (i * w <= Len(bytes)) =>
                      /\ c.res.st = "ok"
                      /\ c.res.v = Tag(c.id, FieldValue(c.e, c.id, SubSeq(bytes, (i - 1) * w + 1, i * w)))
                      /\ c.res.pos = i * w
                      /\ (i = Len(log) => pos = i * w)

\* a second little-endian Short read that returned the field <<0, 1>> as 256
C2_Witness ==
    /\ Len(log) >= 2
    /\ log[2].op = "read" /\ log[2].e = "le" /\ log[2].id = 2
    /\ log[2].res.st = "ok" /\ log[2].res.v = Tag(2, 256)
    /\ SubSeq(bytes, 3, 4) = <<0, 1>>
    /\ pos >= 4

\* C3: a fixed-width primitive tag read from a cursor with fewer remaining
\* bytes than the width returns the error UnexpectedEndOfByteStream (no
\* panic, no partial or zero-filled value).
C3_TruncationIsError ==
    \A i \in 1..Len(log) :
        (log[i].op = "read" /\ log[i].id \in 1..6
            /\ log[i].start + Width(log[i].id) > Len(bytes)) =>
                /\ log[i].res.st = "err"
                /\ log[i].res.why = "UnexpectedEndOfByteStream"

\* the decode of b under type-id id meets a type-id outside 0x01..0x0C:
\* as the root id, as the id of the first entry (named "") of a Compound,
\* or as the element id of a List of one element
RECURSIVE MeetsBadId(_, _, _)
MeetsBadId(e, id, b) ==
    IF id \notin 1..12 THEN TRUE
    ELSE IF id = 9 /\ Len(b) >= 5 /\ SubSeq(b, 2, 5) = Wire32(e, 1)
        THEN MeetsBadId(e, b[1], SubSeq(b, 6, Len(b)))
    ELSE IF id = 10 /\ Len(b) >= 3 /\ b[1] # 0 /\ b[2] = 0 /\ b[3] = 0
        THEN MeetsBadId(e, b[1], SubSeq(b, 4, Len(b)))
    ELSE FALSE

\* C4: a Tag read that meets a type-id outside 0x01..0x0C, at the root, in
\* a Compound entry or in a List element at any depth, returns a Parsing
\* error naming the id as the result of the whole decode; it does not panic.
C4_InvalidIdIsParsingError ==
    \A i \in 1..Len(log) :
        MeetsBadId(log[i].e, log[i].id, SubSeq(bytes, log[i].start + 1, Len(bytes))) =>
            /\ log[i].res.st = "err"
            /\ log[i].res.why = "Parsing"

\* the Compound body of the entries x and y followed by t, in byte order e
TwoEntries(e, x, y, t) ==
    EntryBytes(e, x[1], x[2], x[3]) \o EntryBytes(e, y[1], y[2], y[3]) \o t

EntryTag(e, x) == Tag(x[1], FieldValue(e, x[1], x[3]))

\* the map and the cursor a body with the duplicate name must decode to
DupMap(e, y, t) ==
    IF t = ThirdEntry
    THEN [n \in {y[2], <<>>} |-> IF n = y[2] THEN EntryTag(e, y) ELSE Tag(1, -1)]
    ELSE [n \in {y[2]} |-> EntryTag(e, y)]

DupEnd(e, x, y, t) ==
    Len(TwoEntries(e, x, y, <<>>)) + (IF t = ThirdEntry THEN 5 ELSE IF t = <<>> THEN 0 ELSE 1)

\* C5: a Compound body with two entries of the same name decodes to a map
\* with exactly one entry for the name, holding the later entry's payload,
\* and the cursor has passed the complete bytes of both entries: what
\* follows them (End, a further entry) is read from the right offset.
C5_DuplicateKeys ==
    \A e \in Endians, x \in Entries, y \in Entries, t \in EntryTails :
        (log # <<>> /\ Len(bytes) >= 9 /\ x[2] = y[2] /\ bytes = TwoEntries(e, x, y, t)) =>
            \A i \in 1..Len(log) :
                (log[i].id = 10 /\ log[i].e = e /\ log[i].start = 0) =>
                    /\ log[i].res.st = "ok"
                    /\ log[i].res.v = Tag(10, DupMap(e, y, t))
                    /\ log[i].res.pos = DupEnd(e, x, y, t)
                    /\ (log[i].op = "read" /\ i = Len(log) => pos = DupEnd(e, x, y, t))

\* a big-endian root decode of "a": Byte(1), "a": Short(1), "": Byte(-1), End
C5_Witness ==
    /\ bytes = TwoEntries("be", <<1, <<97>>, <<1>>>>, <<2, <<97>>, <<0, 1>>>>, ThirdEntry)
    /\ log # <<>>
    /\ Last.op = "from_bytes" /\ Last.e = "be"
    /\ Last.res.st = "ok"
    /\ DOMAIN Payload(Last.res.v) = {<<97>>, <<>>}
    /\ Payload(Last.res.v)[<<97>>] = Tag(2, 1)

---------------------------------------------------------------------------
(* FileReaderBE / FileReaderLE (src/binary.rs): cursors whose reads return *)
(* a BinResult.  Of the primitive types, those whose values are integers   *)
(* of at most 32 bits, and i64, are modelled.                              *)

\* longest buffer under a FileReader
MaxReaderLen == 4
\* longest slice asked of get_slice
MaxSlice == 3
\* how far past the end a cursor may stand and still be stepped
MaxOver == 2

\* get_slice that leaves the cursor in place when it fails
get_slice_keep(b, p, len) ==
    IF p + len > Len(b)
    THEN Err("UnexpectedEndOfByteStream", p)
    ELSE Ok(SubSeq(b, p + 1, p + len), p + len)

\* self.pos += len; Err if self.pos > self.bytes.len(); else the slice.
\* Positions and lengths here are far below usize::MAX: the sum does not
\* overflow.
get_slice(b, p, len) ==
    IF p + len > Len(b)
    THEN Err("UnexpectedEndOfByteStream", p + len)
    ELSE Ok(SubSeq(b, p + 1, p + len), p + len)

PrimTypes == {"u8", "i8", "u16", "i16", "i32", "i64"}

\* io_primitive!($type, $size)
PrimSize(T) ==
    CASE T \in {"u8", "i8"} -> 1 [] T \in {"u16", "i16"} -> 2 [] T = "i32" -> 4 [] T = "i64" -> 8

PrimFromBe(T, s) ==
    CASE T = "u8" -> s[1]
      [] T = "i8" -> I8Of(s[1])
      [] T = "u16" -> u16_from_be_bytes(s)
      [] T = "i16" -> i16_from_be_bytes(s)
      [] T = "i32" -> i32_from_be_bytes(s)
      [] T = "i64" -> i64_from_be_bytes(s)

PrimFromLe(T, s) == PrimFromBe(T, Reverse(s))

\* let bytes = fr.get_slice($size)?; Ok(Self::from_be_bytes(x))
primitive_read_be(T, b, p) ==
    LET r == get_slice(b, p, PrimSize(T))
    IN  IF r.st = "ok" THEN Ok(PrimFromBe(T, r.v), r.pos) ELSE r

primitive_read_le(T, b, p) ==
    LET r == get_slice(b, p, PrimSize(T))
    IN  IF r.st = "ok" THEN Ok(PrimFromLe(T, r.v), r.pos) ELSE r

\* PrimitiveFileReader::primitive_read: T::$endian_primitive(self)
primitive_read(rd, T, b, p) ==
    IF rd = "FileReaderBE" THEN primitive_read_be(T, b, p) ELSE primitive_read_le(T, b, p)

\* impl Io for String: the u16 length in the reader's order, then the slice
string_read(rd, b, p) ==
    LET len == primitive_read(rd, "u16", b, p)
    IN  IF len.st # "ok" THEN len
        ELSE LET sl == get_slice(b, len.pos, len.v)
             IN  IF sl.st # "ok" THEN sl ELSE Ok(from_mutf8(sl.v), sl.pos)

IoTypes == PrimTypes \cup {"String"}

\* T::read(fr)
io_read(rd, T, b, p) ==
    IF T = "String" THEN string_read(rd, b, p) ELSE primitive_read(rd, T, b, p)

\* $endian is the reader's own order; $endian_inverse reads through a
\* reader of the other type made at self.pos, and takes its pos back
fr_read_be(rd, T, b, p) == io_read("FileReaderBE", T, b, p)

\* read_le whose position is not taken back from the inverse reader
fr_read_le_unsynced(rd, T, b, p) ==
    IF rd = "FileReaderLE" THEN io_read(rd, T, b, p)
    ELSE [io_read("FileReaderLE", T, b, p) EXCEPT !.pos = p]

fr_read_le(rd, T, b, p) == io_read("FileReaderLE", T, b, p)

\* self.bytes[self.pos..].to_owned()
rest(b, p) ==
    IF p > Len(b)
    THEN Panic("range start index out of range for slice", 0, p)
    ELSE Ok(SubSeq(b, p + 1, Len(b)), p)

fr_at_end(b, p) == p = Len(b)

ReaderBuffers == SeqsUpTo(RawBytes, MaxReaderLen)

InitReader ==
    /\ bytes \in ReaderBuffers
    /\ pos \in 0..Len(bytes)
    /\ reader \in {"FileReaderBE", "FileReaderLE"}
    /\ fw = <<>>
    /\ wrote = NoWrite
    /\ log = <<>>
    /\ calls = <<>>

\* log holds the last call on the reader
CanRead == Alive /\ reader # "FileParser" /\ pos <= Len(bytes) + MaxOver

\* the byte order of a reader type, and the order its $endian_inverse reads
OwnOrder(rd) == IF rd = "FileReaderBE" THEN "be" ELSE "le"

InverseOrder(rd) == IF rd = "FileReaderBE" THEN "le" ELSE "be"

\* the call went through $endian_inverse
IsInverse(c) == c.op = "read" /\ c.e = InverseOrder(reader)

\* the log keeps the last call, and before it the inverse-order read that
\* a plain read follows
Did(c) ==
    /\ pos' = c.res.pos
    /\ log' = IF c.op = "read" /\ c.e = "own" /\ log # <<>>
              THEN (IF IsInverse(Last) THEN <<Last, c>> ELSE <<c>>)
              ELSE <<c>>
    /\ UNCHANGED <<bytes, reader, fw, wrote, calls>>

\* fr.get_slice(len)
GetSlice(len) == CanRead /\ Did(Call("get_slice", "own", len, pos, get_slice(bytes, pos, len)))

\* fr.read::<T>()
FrRead(T) == CanRead /\ Did(Call("read", "own", T, pos, io_read(reader, T, bytes, pos)))

\* fr.read_be::<T>()
FrReadBe(T) == CanRead /\ Did(Call("read", "be", T, pos, fr_read_be(reader, T, bytes, pos)))

\* fr.read_le::<T>()
FrReadLe(T) == CanRead /\ Did(Call("read", "le", T, pos, fr_read_le(reader, T, bytes, pos)))

\* fr.rest()
FrRest == CanRead /\ Did(Call("rest", "own", 0, pos, rest(bytes, pos)))

\* fr.at_end()
FrAtEnd == CanRead /\ Did(Call("at_end", "own", 0, pos, Ok(fr_at_end(bytes, pos), pos)))

NextReader ==
    \/ \E len \in 0..MaxSlice : GetSlice(len)
    \/ \E T \in IoTypes : FrRead(T)
    \/ \E T \in IoTypes : FrReadBe(T)
    \/ \E T \in IoTypes : FrReadLe(T)
    \/ FrRest
    \/ FrAtEnd

SpecReader == InitReader /\ [][NextReader]_vars

\* C9: get_slice(len) at position p over a buffer of length L succeeds
\* exactly when p + len <= L, and then returns the bytes at [p, p + len);
\* otherwise it returns UnexpectedEndOfByteStream; either way the position
\* afterwards is p + len.
C9_GetSlice ==
    (log # <<>> /\ reader # "FileParser") =>
        (Last.op = "get_slice" =>
            LET p == Last.start
                len == Last.id
            IN  /\ (Last.res.st = "ok") <=> (p + len <= Len(bytes))
                /\ Last.res.st = "ok" => Last.res.v = [i \in 1..len |-> bytes[p + i]]
                /\ Last.res.st # "ok" =>
                      Last.res.st = "err" /\ Last.res.why = "UnexpectedEndOfByteStream"
                /\ pos = p + len)

\* a get_slice that ran past the end from inside the buffer
C9_Witness ==
    /\ log # <<>>
    /\ Last.op = "get_slice"
    /\ Last.start < Len(bytes) /\ Last.id > 0
    /\ Last.res.st = "err"
    /\ pos = Last.start + Last.id
    /\ pos > Len(bytes)

---------------------------------------------------------------------------
(* Claims about the encoder. *)

IsTagWrite == wrote.op \in {"to_bytes", "write"}

\* every List inside t holds elements of one type, and t holds no End
RECURSIVE WellFormed(_)
WellFormed(t) ==
    CASE tag_id(t) = 0 -> FALSE
      [] tag_id(t) = 9 ->
            \A i \in 1..Len(Payload(t)) :
                /\ tag_id(Payload(t)[i]) = tag_id(Payload(t)[1])
                /\ WellFormed(Payload(t)[i])
      [] tag_id(t) = 10 -> \A k \in DOMAIN Payload(t) : WellFormed(Payload(t)[k])
      [] OTHER -> TRUE

\* C1: decoding the bytes produced by encoding a Tag yields a Tag equal to
\* it, for to_be_bytes / from_be_bytes and for to_le_bytes / from_le_bytes
\* (stated for the documents: Compounds without End values whose Lists
\* hold one element type).
C1_RoundTrip ==
    (/\ wrote.op = "to_bytes"
     /\ tag_id(wrote.arg) = 10
     /\ WellFormed(wrote.arg)
     /\ reader = "FileParser"
     /\ log # <<>>) =>
        ((Last.op = "from_bytes" /\ Last.e = wrote.e) =>
            /\ Last.res.st = "ok"
            /\ Last.res.v = wrote.arg)

Zero5 == <<0, 0, 0, 0, 0>>

\* C6: a List of zero elements is written as the five bytes 0x00 and a
\* 32-bit zero count by either encoder, and those five bytes read as a List
\* payload give the empty List and move the cursor by five.
C6_EmptyList ==
    /\ (IsTagWrite /\ tag_id(wrote.arg) = 9 /\ Len(Payload(wrote.arg)) = 0) => fw = Zero5
    /\ (reader = "FileParser" /\ bytes = Zero5) =>
          \A i \in 1..Len(log) :
              (log[i].op = "read" /\ log[i].id = 9 /\ log[i].start = 0) =>
                  /\ log[i].res.st = "ok"
                  /\ log[i].res.v = Tag(9, <<>>)
                  /\ log[i].res.pos = 5
                  /\ (i = Len(log) => pos = 5)

\* the empty List written by write_le and read back by read_le
C6_Witness ==
    /\ wrote = Wrote("write", "le", Tag(9, <<>>))
    /\ fw = Zero5
    /\ bytes = fw
    /\ log # <<>>
    /\ Last.op = "read" /\ Last.e = "le" /\ Last.id = 9
    /\ Last.res.v = Tag(9, <<>>)
    /\ pos = 5

\* C7: the unsigned 16-bit prefix a string write emits is the number of
\* modified UTF-8 bytes that follow it, so that reading the string back
\* consumes exactly the bytes written and returns the text.
C7_StringLengthPrefix ==
    wrote.op = "write_var_string" =>
        /\ \/ u16_from_be_bytes(SubSeq(fw, 1, 2)) = Len(fw) - 2
           \/ u16_from_le_bytes(SubSeq(fw, 1, 2)) = Len(fw) - 2
        /\ (reader = "FileParser" /\ log # <<>>) =>
              ((Last.op = "read_var_string" /\ Last.e = wrote.e /\ Last.start = 0) =>
                  /\ Last.res.st = "ok"
                  /\ Last.res.v = wrote.arg
                  /\ Last.res.pos = Len(fw))

\* a field's bytes in byte order e, from its most-significant-first bytes
Field(e, s) == IF e = "be" THEN s ELSE Reverse(s)

\* every Compound inside t has at most one entry: one wire form
RECURSIVE OneOrder(_)
OneOrder(t) ==
    CASE tag_id(t) = 9 -> \A i \in 1..Len(Payload(t)) : OneOrder(Payload(t)[i])
      [] tag_id(t) = 10 ->
            /\ Cardinality(DOMAIN Payload(t)) <= 1
            /\ \A k \in DOMAIN Payload(t) : OneOrder(Payload(t)[k])
      [] OTHER -> TRUE

RefString(e, s) == Field(e, to_be_bytes(StringLen(s) % 65536, 2)) \o as_mutf8_bytes(s)

\* the wire form of t with every multi-byte field in byte order e
RECURSIVE RefWire(_, _)
RefWire(e, t) ==
    LET v == Payload(t)
    IN  CASE tag_id(t) = 0 -> <<>>
          [] tag_id(t) = 1 -> to_be_bytes(v, 1)
          [] tag_id(t) = 2 -> Field(e, to_be_bytes(v, 2))
          [] tag_id(t) \in {3, 5} -> Field(e, to_be_bytes(v, 4))
          [] tag_id(t) \in {4, 6} -> Field(e, i64_to_be_bytes(v))
          [] tag_id(t) = 7 ->
                Field(e, to_be_bytes(Len(v), 4)) \o Flat([i \in 1..Len(v) |-> to_be_bytes(v[i], 1)])
          [] tag_id(t) = 8 -> RefString(e, v)
          [] tag_id(t) = 9 ->
                <<IF Len(v) = 0 THEN 0 ELSE tag_id(v[1])>> \o Field(e, to_be_bytes(Len(v), 4))
                    \o Flat([i \in 1..Len(v) |-> RefWire(e, v[i])])
          [] tag_id(t) = 10 ->
                IF DOMAIN v = {} THEN <<0>>
                ELSE LET k == CHOOSE n \in DOMAIN v : TRUE
                     IN  <<tag_id(v[k])>> \o RefString(e, k) \o RefWire(e, v[k]) \o <<0>>
          [] tag_id(t) = 11 ->
                Field(e, to_be_bytes(Len(v), 4))
                    \o Flat([i \in 1..Len(v) |-> Field(e, to_be_bytes(v[i], 4))])
          [] tag_id(t) = 12 ->
                Field(e, to_be_bytes(Len(v), 4))
                    \o Flat([i \in 1..Len(v) |-> Field(e, i64_to_be_bytes(v[i]))])

\* C8: the little-endian encoder writes every multi-byte field (scalar
\* payloads, array and List counts, string length prefixes, the payloads
\* nested in Lists and Compounds) least significant byte first, and the
\* big-endian encoder most significant byte first.
C8_WireByteOrder ==
    (IsTagWrite /\ OneOrder(wrote.arg)) => fw = RefWire(wrote.e, wrote.arg)

\* every List inside t holds elements of one type
RECURSIVE Homogeneous(_)
Homogeneous(t) ==
    CASE tag_id(t) = 9 ->
            \A i \in 1..Len(Payload(t)) :
                /\ tag_id(Payload(t)[i]) = tag_id(Payload(t)[1])
                /\ Homogeneous(Payload(t)[i])
      [] tag_id(t) = 10 -> \A k \in DOMAIN Payload(t) : Homogeneous(Payload(t)[k])
      [] OTHER -> TRUE

\* C10: of every List the encoder writes, the element type-id is on the
\* wire once, for the whole List, and every element has that type-id.
C10_ListHomogeneity ==
    IsTagWrite =>
        /\ Homogeneous(wrote.arg)
        /\ (tag_id(wrote.arg) = 9 /\ Len(Payload(wrote.arg)) > 0) =>
              \A i \in 1..Len(Payload(wrote.arg)) : tag_id(Payload(wrote.arg)[i]) = fw[1]

---------------------------------------------------------------------------
(* Claims about counts and framing in the decoder. *)

\* the count prefix of an array payload at offset p is there and negative:
\* its sign byte is set (for LongArray, in the 4-byte and the 8-byte view)
NegativeCount(e, id, b, p) ==
    IF id = 12
    THEN Len(b) >= p + 8 /\ \A i \in 1..8 : b[p + i] = 255
    ELSE Len(b) >= p + 4 /\ (IF e = "be" THEN b[p + 1] ELSE b[p + 4]) >= 128

\* C11: decoding a ByteArray, IntArray or LongArray payload whose signed
\* count prefix is negative returns a Parsing error: no empty array, no
\* count taken as a large unsigned value.
C11_NegativeCountIsError ==
    \A i \in 1..Len(log) :
        (log[i].op = "read" /\ log[i].id \in {7, 11, 12}
            /\ NegativeCount(log[i].e, log[i].id, bytes, log[i].start)) =>
                /\ log[i].res.st = "err"
                /\ log[i].res.why = "Parsing"

\* the 4-byte count field s, in byte order e, is zero or negative
CountNotPositive(e, s) ==
    \/ \A i \in 1..4 : s[i] = 0
    \/ (IF e = "be" THEN s[1] ELSE s[4]) >= 128

\* C12: a List payload with element id x and signed 32-bit count n decodes
\* to the empty List, without error, when n <= 0, whatever x is; with
\* n > 0 and x = 0x00 the decode is a Parsing error.
C12_ListFraming ==
    \A i \in 1..Len(log) :
        (log[i].op = "read" /\ log[i].id = 9 /\ Len(bytes) >= log[i].start + 5) =>
            LET p == log[i].start
                x == bytes[p + 1]
                n == SubSeq(bytes, p + 2, p + 5)
            IN  /\ CountNotPositive(log[i].e, n) =>
                      /\ log[i].res.st = "ok"
                      /\ log[i].res.v = Tag(9, <<>>)
                      /\ log[i].res.pos = p + 5
                /\ (~CountNotPositive(log[i].e, n) /\ x = 0) =>
                      /\ log[i].res.st = "err"
                      /\ log[i].res.why = "Parsing"

\* entries as in Entries, and entries named ""
LenientEntries ==
    Entries \cup {<<1, <<>>, <<v>>>> : v \in {1, 255}} \cup {<<2, <<>>, <<0, 1>>>>}

\* what may follow the last entry: the end of the buffer, End, End and a
\* further byte
LenientTails == {<<>>, <<0>>, <<0, 1>>}

\* the bytes of the entries xs in byte order e
EntriesBytes(e, xs) == Flat([i \in 1..Len(xs) |-> EntryBytes(e, xs[i][1], xs[i][2], xs[i][3])])

\* the entries xs as a map: of two entries of one name, the later
EntriesMap(e, xs) ==
    [n \in {xs[i][2] : i \in 1..Len(xs)} |->
        LET last == CHOOSE i \in 1..Len(xs) :
                        xs[i][2] = n /\ \A j \in (i + 1)..Len(xs) : xs[j][2] # n
        IN  EntryTag(e, xs[last])]

\* Compound bodies of up to two entries, with what they are made of
LenientBodies ==
    {[e |-> e, xs |-> xs, t |-> t, b |-> EntriesBytes(e, xs) \o t] :
        e \in Endians, xs \in SeqsUpTo(LenientEntries, 2), t \in LenientTails}

\* C13: the decode of a Compound body stops at the first entry id 0x00,
\* consuming that byte and nothing after it, or, with no End marker, at
\* the end of the buffer when it falls on an entry boundary, without
\* error; the result is the Compound of exactly the entries read.
C13_CompoundEnd ==
    log # <<>> =>
        \A r \in LenientBodies :
            r.b = bytes =>
                \A i \in 1..Len(log) :
                    (log[i].id = 10 /\ log[i].e = r.e /\ log[i].start = 0) =>
                        /\ log[i].res.st = "ok"
                        /\ log[i].res.v = Tag(10, EntriesMap(r.e, r.xs))
                        /\ log[i].res.pos = Len(r.b) - (IF r.t = <<0, 1>> THEN 1 ELSE 0)

\* a little-endian root decode of "a": Byte(1), "b": Short(256) that ends
\* with the buffer, no End marker
C13_Witness ==
    /\ bytes = EntriesBytes("le", << <<1, <<97>>, <<1>>>>, <<2, <<98>>, <<0, 1>>>> >>)
    /\ log # <<>>
    /\ Last.op = "from_bytes" /\ Last.e = "le"
    /\ Last.res.st = "ok"
    /\ Last.res.pos = Len(bytes)
    /\ DOMAIN Payload(Last.res.v) = {<<97>>, <<98>>}
    /\ Payload(Last.res.v)[<<98>>] = Tag(2, 256)

\* the width of an element of a ByteArray, IntArray, LongArray
ElemWidth(id) == CASE id = 7 -> 1 [] id = 11 -> 4 [] id = 12 -> 8

\* C14: for ByteArray, IntArray and LongArray the encoder writes the count
\* as a signed 32-bit field and the decoder reads it as one: the decoder
\* run on the encoder's output for an array of k elements reads the count
\* k and then exactly the k elements (stated for the big-endian pair).
C14_ArrayCountWidth ==
    (IsTagWrite /\ wrote.e = "be" /\ tag_id(wrote.arg) \in {7, 11, 12}) =>
        LET id == tag_id(wrote.arg)
            k == Len(Payload(wrote.arg))
        IN  /\ Len(fw) = 4 + k * ElemWidth(id)
            /\ SubSeq(fw, 1, 4) = <<0, 0, 0, k>>
            /\ (reader = "FileParser" /\ log # <<>>) =>
                  ((Last.op = "read" /\ Last.e = "be" /\ Last.id = id /\ Last.start = 0) =>
                      /\ Last.res.st = "ok"
                      /\ Last.res.v = wrote.arg
                      /\ Last.res.pos = Len(fw))

---------------------------------------------------------------------------
(* Claims about the readers of binary.rs. *)

\* the signed 32-bit value of four bytes, most significant first
RefI32(m) ==
    (IF m[1] >= 128 THEN m[1] - 256 ELSE m[1]) * 16777216 + m[2] * 65536 + m[3] * 256 + m[4]

\* the value of type T held by the bytes s in byte order o
RefPrim(o, T, s) ==
    LET m == Field(o, s)
    IN  CASE T = "u8" -> m[1]
          [] T = "i8" -> IF m[1] >= 128 THEN m[1] - 256 ELSE m[1]
          [] T = "u16" -> m[1] * 256 + m[2]
          [] T = "i16" -> Signed16(m[1] * 256 + m[2])
          [] T = "i32" -> RefI32(m)
          [] T = "i64" -> <<RefI32(SubSeq(m, 1, 4)), RefI32(SubSeq(m, 5, 8))>>

\* the call c read a T at c.start in byte order o: a primitive succeeds
\* when its bytes are there; a String when its length and its bytes are;
\* a failed read leaves the position it asked for
ReadIn(o, c) ==
    LET p == c.start
        L == Len(bytes)
    IN  IF c.id # "String"
        THEN LET w == PrimSize(c.id)
             IN  /\ c.res.pos = p + w
                 /\ IF p + w <= L
                    THEN c.res.st = "ok" /\ c.res.v = RefPrim(o, c.id, SubSeq(bytes, p + 1, p + w))
                    ELSE c.res.st = "err" /\ c.res.why = "UnexpectedEndOfByteStream"
        ELSE IF p + 2 > L
             THEN c.res.st = "err" /\ c.res.pos = p + 2
             ELSE LET n == RefPrim(o, "u16", SubSeq(bytes, p + 1, p + 2))
                  IN  /\ c.res.pos = p + 2 + n
                      /\ IF p + 2 + n <= L
                         THEN c.res.st = "ok" /\ c.res.v = from_mutf8(SubSeq(bytes, p + 3, p + 2 + n))
                         ELSE c.res.st = "err" /\ c.res.why = "UnexpectedEndOfByteStream"

\* after an inverse-order read the reader stands where the sub-reader
\* stopped, and a plain read that follows takes the reader's own order
SubReadSynced ==
    (reader # "FileParser" /\ log # <<>>) =>
        /\ pos = Last.res.pos
        /\ \A i \in 1..Len(log) :
              /\ IsInverse(log[i]) => ReadIn(InverseOrder(reader), log[i])
              /\ (log[i].op = "read" /\ log[i].e = "own") => ReadIn(OwnOrder(reader), log[i])
        /\ Len(log) = 2 => log[2].start = log[1].res.pos

\* C15: an inverse-order read (read_le on a big-endian reader, read_be on
\* a little-endian one) at position p decodes the value at p in the
\* opposite byte order; afterwards the reader's position is the
\* sub-reader's final position, also when the sub-read failed; the buffer
\* and the reader's own byte order are unchanged, and a plain read that
\* follows uses the reader's own order.
C15_InverseSubRead ==
    /\ []SubReadSynced
    /\ [][bytes' = bytes /\ reader' = reader]_vars

\* on a big-endian reader over 00 01 00 01: read_le::<i16> gave 256 and the
\* plain read::<i16> after it gave 1
C15_Witness ==
    /\ reader = "FileReaderBE"
    /\ bytes = <<0, 1, 0, 1>>
    /\ Len(log) = 2
    /\ log[1].e = "le" /\ log[1].id = "i16" /\ log[1].start = 0 /\ log[1].res.v = 256
    /\ log[2].e = "own" /\ log[2].id = "i16" /\ log[2].res.st = "ok" /\ log[2].res.v = 1
    /\ pos = 4

\* C16: after any sequence of get_slice, primitive and string reads on a
\* reader made at an offset within its buffer, failed reads included, the
\* position is at most the buffer length: at_end() is true exactly when
\* no unread bytes remain, and rest() returns the unread suffix, possibly
\* empty, and does not fail.
C16_CursorBound ==
    reader \in {"FileReaderBE", "FileReaderLE"} =>
        /\ pos <= Len(bytes)
        /\ log # <<>> =>
              /\ Last.op = "at_end" => (Last.res.v <=> Last.start >= Len(bytes))
              /\ Last.op = "rest" =>
                    /\ Last.res.st = "ok"
                    /\ Last.res.v = SubSeq(bytes, Last.start + 1, Len(bytes))

---------------------------------------------------------------------------
(* The decode of a root Compound, one loop iteration at a time (SpecSteps). *)
(* calls is the stack of the Tag::read_be / read_le calls in progress that  *)
(* hold a loop, outermost first: the `while !fp.at_end()` of a Compound,    *)
(* the `for _ in 0..len` of a List or an array, with the iterations left.   *)
(* The values read are not kept.  log receives the outcome at the end.      *)

\* the bytes of the count field of a List or an array
CountFields == [1..4 -> RawBytes]

\* what follows the count
LoopTails == {<<>>, <<0>>, <<1, 1>>}

\* a root Compound whose first entry, named "", is a List (of Byte, List
\* or Compound elements) or an array
LoopBuffers ==
    {<<9, 0, 0, x>> \o c \o t : x \in {1, 9, 10}, c \in CountFields, t \in LoopTails}
        \cup {<<x, 0, 0>> \o c \o t : x \in {7, 11, 12}, c \in CountFields, t \in LoopTails}

StepBuffers == RawBuffers \cup NestedBuffers \cup LoopBuffers

\* a frame: the loop's kind, byte order and element type, the iterations
\* left, and the cursor at the start of the previous iteration (-1: none)
Frame(k, e, id, left, mark) == [k |-> k, e |-> e, id |-> id, left |-> left, mark |-> mark]

Top == calls[Len(calls)]

Pop == SubSeq(calls, 1, Len(calls) - 1)

ReplaceTop(f) == Append(Pop, f)

\* a loop counter that is not advanced
NextLeftStuck(left) == left

\* `for _ in 0..len`: one iteration fewer is left
NextLeft(left) == left - 1

\* the iterations of `for _ in 0..len` for a signed len
Iterations(len) == IF len < 0 THEN 0 ELSE len

\* what a step leaves behind: the stack, the cursor and the log
After(c, p, l) == [calls |-> c, pos |-> p, log |-> l]

\* the decode has ended with outcome r
Finished(r) == After(<<>>, r.pos, <<Call("from_bytes", calls[1].e, 10, 0, r)>>)

\* the call on top returns: its caller goes on, or the decode has ended
Return(p) ==
    IF Len(calls) = 1
    THEN Finished(Ok(0, p))
    ELSE After(Pop, p, log)

\* Tag::read(id, fp) is called at cursor p with the stack st: a type with a
\* loop reads its header and becomes the top call; the other types read
\* and return at once; a failed read unwinds everything
Enter(e, id, p, st) ==
    IF id = 10
    THEN After(Append(st, Frame("compound", e, 0, 0, -1)), p, log)
    ELSE IF id = 9
    THEN LET type_id == read_u8(bytes, p)
             len == rd_i32(e, bytes, type_id.pos)
         IN  IF type_id.st # "ok" THEN Finished(type_id)
             ELSE IF len.st # "ok" THEN Finished(len)
             ELSE After(Append(st, Frame("list", e, type_id.v, Iterations(len.v), -1)),
                        len.pos, log)
    ELSE IF id \in {7, 11}
    THEN LET len == rd_i32(e, bytes, p)
         IN  IF len.st # "ok" THEN Finished(len)
             ELSE After(Append(st, Frame("array", e, id, Iterations(len.v), -1)),
                        len.pos, log)
    ELSE IF id = 12
    THEN LET len == rd_i64(e, bytes, p)
         IN  IF len.st # "ok" THEN Finished(len)
             ELSE After(Append(st, Frame("array", e, id, Count64(len.v), -1)),
                        len.pos, log)
    ELSE LET r == TagRead(e, id, bytes, p)
         IN  IF r.st # "ok" THEN Finished(r)
             ELSE After(st, r.pos, log)

\* the step's effect on the decoder; the buffer is only read
Take(o) ==
    /\ calls' = o.calls
    /\ pos' = o.pos
    /\ log' = o.log
    /\ UNCHANGED <<bytes, reader, fw, wrote>>

Running == calls # <<>>

\* while !fp.at_end() fails, or the entry id read is 0x00: break
CompoundEnd ==
    /\ Running /\ Top.k = "compound"
    /\ IF at_end(bytes, pos) THEN Take(Return(pos))
       ELSE \E id \in {read_u8(bytes, pos)} :
                id.st = "ok" /\ id.v = 0 /\ Take(Return(id.pos))

\* one entry: its id, its name, and the call of Tag::read for its value
CompoundEntry ==
    /\ Running /\ Top.k = "compound"
    /\ ~at_end(bytes, pos)
    /\ \E id \in {read_u8(bytes, pos)} :
          IF id.st # "ok" THEN Take(Finished(id))
          ELSE /\ id.v # 0
               /\ \E name \in {rd_var_string(Top.e, bytes, id.pos)} :
                     IF name.st # "ok" THEN Take(Finished(name))
                     ELSE \E o \in {Enter(Top.e, id.v, name.pos, calls)} : Take(o)

\* a List loop none of whose iterations moves the cursor is cut short
\* when more than MaxCount of them are to come
Cut == Top.k = "list" /\ Top.mark = pos /\ Top.left >= MaxCount

\* the `for` of a List or an array is over
LoopEnd ==
    /\ Running /\ Top.k \in {"list", "array"}
    /\ Top.left = 0
    /\ Take(Return(pos))

\* the loop on top with one iteration used up, begun at the cursor
Iterated == ReplaceTop([Top EXCEPT !.left = NextLeft(Top.left), !.mark = pos])

\* one iteration of a List: array.push(Tag::read(type_id, fp))
ListElement ==
    /\ Running /\ Top.k = "list"
    /\ Top.left > 0
    /\ IF Cut THEN Take(Finished(Huge(Top.left, pos)))
       ELSE \E o \in {Enter(Top.e, Top.id, pos, Iterated)} : Take(o)

\* one iteration of an array: array.push(fp.read_..())
ArrayElement ==
    /\ Running /\ Top.k = "array"
    /\ Top.left > 0
    /\ \E r \in {rd_elem(Top.e, Top.id, bytes, pos)} :
          IF r.st # "ok" THEN Take(Finished(r))
          ELSE Take(After(Iterated, r.pos, log))

\* no buffer has been handed to the decoder yet
InitSteps ==
    /\ bytes = <<>>
    /\ pos = 0
    /\ reader = "none"
    /\ fw = <<>>
    /\ wrote = NoWrite
    /\ log = <<>>
    /\ calls = <<>>

\* Tag::from_be_bytes(&b) / Tag::from_le_bytes(&b): FileParser::new(b, 0)
\* and the call of Tag::read for the root Compound
Begin(b, e) ==
    /\ reader = "none"
    /\ bytes' = b
    /\ pos' = 0
    /\ reader' = "FileParser"
    /\ calls' = <<Frame("compound", e, 0, 0, -1)>>
    /\ UNCHANGED <<fw, wrote, log>>

NextSteps ==
    \/ \E b \in StepBuffers, e \in Endians : Begin(b, e)
    \/ CompoundEnd
    \/ CompoundEntry
    \/ LoopEnd
    \/ ListElement
    \/ ArrayElement

SpecSteps == InitSteps /\ [][NextSteps]_vars

\* the decode is one thread that runs while it has a step to take
SpecStepsFair == SpecSteps /\ WF_vars(NextSteps)

\* the iterations left in the loops in progress, outermost first
Lefts(c) == [i \in 1..Len(c) |-> c[i].left]

\* a comes before b: at the first place where they differ a has ended or
\* holds the smaller number
LexLess(a, b) ==
    \E i \in 1..Len(b) :
        /\ \A j \in 1..(i - 1) : j <= Len(a) /\ a[j] = b[j]
        /\ (i > Len(a) \/ (i <= Len(a) /\ a[i] < b[i]))

\* a step consumes at least one byte, or it ends a loop or uses up one of
\* a loop's iterations while the loops around it stand as they were
Decreases ==
    \/ Len(bytes) - pos' < Len(bytes) - pos
    \/ pos' = pos /\ LexLess(Lefts(calls'), Lefts(calls))

Done == calls = <<>> /\ log # <<>>

\* the outcome the decode ended with is that of Tag::from_*_bytes
SameOutcome ==
    Done /\ bytes \in RawBuffers \cup NestedBuffers =>
        LET r == IF Last.e = "be" THEN from_be_bytes(bytes) ELSE from_le_bytes(bytes)
        IN  Last.res.st = r.st /\ Last.res.pos = r.pos

\* C17: the decode of any buffer from the root (id 0x0A at offset 0), in
\* either byte order, ends after finitely many steps with an outcome: the
\* Compound entry loop cannot run forever, as each iteration consumes at
\* least one byte or ends the loop, and a List or array loop runs at most
\* as many times as its count says.
C17_DecodeTerminates ==
    /\ <>Done
    /\ [][Running => Decreases]_vars
    /\ [](\A i \in 1..Len(calls) : calls[i].left >= 0)
    /\ []SameOutcome

\* the big-endian decode of a List of 255 Compounds that starts at the end
\* of the buffer: it has ended, with a Tag, after 255 iterations none of
\* which consumed a byte
C17_Witness ==
    /\ bytes = <<9, 0, 0, 10, 0, 0, 0, 255>>
    /\ Done
    /\ Last.e = "be"
    /\ Last.res.st = "ok"
    /\ pos = 8

====
